---- MODULE Spec2Model ----
(***************************************************************************)
(* The Supabase client holder of @umituz/react-native-supabase:            *)
(* SupabaseClientSingleton (initialize / getClient / isInitialized /       *)
(* getInitializationError / clearSessionCache / reset) together with the   *)
(* pure validateSupabaseConfig and the useSupabase hook.                   *)
(*                                                                         *)
(* JavaScript strings that the code inspects character by character (url,  *)
(* anonKey, storage keys) are sequences of one-character strings; messages *)
(* that are only stored and compared are TLA+ strings.  A nullable field   *)
(* (T | null) is a sequence of length at most one: << >> is null.          *)
(***************************************************************************)
EXTENDS Integers, Sequences, FiniteSets, TLC

VARIABLES
    client,               \* this.client : SupabaseClientType | null
    initializationError,  \* this.initializationError : string | null
    config,               \* this.config : SupabaseConfig | null
    created,              \* number of client objects createClient has built
    last,                 \* the most recent synchronous call and its result
    lifecycle,            \* history: the first successful initialize() since reset()
    failed,               \* history: an initialize() returned null since reset()
    store,                \* AsyncStorage: key -> value
    calls,                \* the pending clearSessionCache() invocations, by slot
    settled,              \* the clearSessionCache() promise that settled last
    hook,                 \* the memo cells of one component that calls useSupabase()
    adapter               \* the caller's own storage adapter: key -> value

holder == <<client, initializationError, config, created>>
vars == <<client, initializationError, config, created, last, lifecycle, failed,
          store, calls, settled, hook, adapter>>

----------------------------------------------------------------------------
(* Bounds *)

MaxClients == 2
MaxCalls == 2

----------------------------------------------------------------------------
(* JavaScript values *)

null == << >>

Undef   == [type |-> "undefined", str |-> << >>, num |-> 0, bool |-> FALSE]
Str(s)  == [type |-> "string",    str |-> s,     num |-> 0, bool |-> FALSE]
Num(n)  == [type |-> "number",    str |-> << >>, num |-> n, bool |-> FALSE]
Bool(b) == [type |-> "boolean",   str |-> << >>, num |-> 0, bool |-> b]
Obj(s)  == [type |-> "object",    str |-> s,     num |-> 0, bool |-> FALSE]

\* ToBoolean, as `!x`, `x || y` and `if (x)` apply it
Truthy(v) ==
    CASE v.type = "string"  -> v.str # << >>
      [] v.type = "number"  -> v.num # 0
      [] v.type = "boolean" -> v.bool
      [] v.type = "object"  -> TRUE
      [] OTHER              -> FALSE

\* a || b
OrElse(a, b) == IF Truthy(a) THEN a ELSE b

\* a ?? b
Nullish(a, b) == IF a.type = "undefined" THEN b ELSE a

\* truthiness of a `string | null` field: null and '' are both falsy
TruthyStr(e) == e # null /\ e[1] # ""

\* String.prototype.includes
Includes(s, sub) ==
    \E i \in 1..(Len(s) - Len(sub) + 1) : SubSeq(s, i, i + Len(sub) - 1) = sub

Whitespace == {" ", "\t", "\n"}

RECURSIVE TrimStart(_)
TrimStart(s) ==
    IF s # << >> /\ Head(s) \in Whitespace THEN TrimStart(Tail(s)) ELSE s

RECURSIVE TrimEnd(_)
TrimEnd(s) ==
    IF s # << >> /\ s[Len(s)] \in Whitespace
    THEN TrimEnd(SubSeq(s, 1, Len(s) - 1)) ELSE s

\* String.prototype.trim
Trim(s) == TrimEnd(TrimStart(s))

----------------------------------------------------------------------------
(* new URL(input), without a base *)

Alpha == {"a","b","c","d","e","f","g","h","i","j","k","l","m",
          "n","o","p","q","r","s","t","u","v","w","x","y","z"}
Digit == {"0","1","2","3","4","5","6","7","8","9"}
SchemeChar == Alpha \cup Digit \cup {"+", "-", "."}
HostEnd == {"/", "?", "#"}
ForbiddenHostChar == {" ", "<", ">", "[", "]", "^", "|", "%", "\\"}

http  == <<"h","t","t","p">>
https == <<"h","t","t","p","s">>
SpecialSchemes == {http, https, <<"f","t","p">>, <<"w","s">>, <<"w","s","s">>}

RECURSIVE SkipSlashes(_)
SkipSlashes(s) ==
    IF s # << >> /\ Head(s) \in {"/", "\\"} THEN SkipSlashes(Tail(s)) ELSE s

RECURSIVE TakeHost(_)
TakeHost(s) ==
    IF s = << >> \/ Head(s) \in HostEnd THEN << >>
    ELSE <<Head(s)>> \o TakeHost(Tail(s))

\* [ok |-> the constructor returned, protocol |-> url.protocol]
ParseURL(input) ==
    LET s      == Trim(input)
        colons == {i \in 1..Len(s) : s[i] = ":"}
        fail   == [ok |-> FALSE, protocol |-> << >>]
    IN  IF colons = {} THEN fail
        ELSE
          LET c      == CHOOSE i \in colons : \A j \in colons : i <= j
              scheme == SubSeq(s, 1, c - 1)
              rest   == SubSeq(s, c + 1, Len(s))
              host   == TakeHost(SkipSlashes(rest))
          IN  IF scheme = << >> \/ scheme[1] \notin Alpha
                 \/ \E i \in 1..Len(scheme) : scheme[i] \notin SchemeChar
              THEN fail
              ELSE IF scheme \in SpecialSchemes
                      /\ (host = << >>
                          \/ \E i \in 1..Len(host) : host[i] \in ForbiddenHostChar)
              THEN fail
              ELSE [ok |-> TRUE, protocol |-> scheme \o <<":">>]

----------------------------------------------------------------------------
(* validateSupabaseConfig *)

PLACEHOLDER_KEY == <<"y","o","u","r","_","s","u","p","a","b","a","s","e","_","a","n","o","n","_","k","e","y">>
PLACEHOLDER_URL == <<"y","o","u","r","-","p","r","o","j","e","c","t">>

Valid == [threw |-> FALSE, valid |-> TRUE, error |-> null]
Invalid(msg) == [threw |-> FALSE, valid |-> FALSE, error |-> <<msg>>]
\* reading a property of undefined raises a TypeError
TypeErrorMessage == "Cannot read properties of undefined (reading 'url')"
ValidateThrows == [threw |-> TRUE, valid |-> FALSE, error |-> <<TypeErrorMessage>>]

\* a variant comparing with === where the code uses includes()
hasPlaceholder_equals(cfg) ==
    \/ cfg.anonKey.str = PLACEHOLDER_KEY
    \/ cfg.url.str = PLACEHOLDER_URL

hasPlaceholder(cfg) ==
    \/ Includes(cfg.anonKey.str, PLACEHOLDER_KEY)
    \/ Includes(cfg.url.str, PLACEHOLDER_URL)

\* a variant that looks for placeholders before it parses the url
validateSupabaseConfig_placeholderFirst(cfg) ==
    IF cfg.type = "undefined" THEN ValidateThrows
    ELSE IF ~Truthy(cfg.url) \/ cfg.url.type # "string"
    THEN Invalid("Supabase URL is required and must be a string")
    ELSE IF ~Truthy(cfg.anonKey) \/ cfg.anonKey.type # "string"
    THEN Invalid("Supabase anon key is required and must be a string")
    ELSE IF hasPlaceholder(cfg)
    THEN Invalid("Please replace placeholder values with actual Supabase credentials")
    ELSE IF ~ParseURL(cfg.url.str).ok
    THEN Invalid("Invalid Supabase URL format")
    ELSE IF ParseURL(cfg.url.str).protocol \notin {http \o <<":">>, https \o <<":">>}
    THEN Invalid("Supabase URL must use http:// or https:// protocol")
    ELSE IF Len(Trim(cfg.anonKey.str)) = 0
    THEN Invalid("Supabase anon key cannot be empty")
    ELSE Valid

validateSupabaseConfig(cfg) ==
    IF cfg.type = "undefined" THEN ValidateThrows
    ELSE IF ~Truthy(cfg.url) \/ cfg.url.type # "string"
    THEN Invalid("Supabase URL is required and must be a string")
    ELSE IF ~Truthy(cfg.anonKey) \/ cfg.anonKey.type # "string"
    THEN Invalid("Supabase anon key is required and must be a string")
    ELSE IF ~ParseURL(cfg.url.str).ok
    THEN Invalid("Invalid Supabase URL format")
    ELSE IF ParseURL(cfg.url.str).protocol \notin {http \o <<":">>, https \o <<":">>}
    THEN Invalid("Supabase URL must use http:// or https:// protocol")
    ELSE IF Len(Trim(cfg.anonKey.str)) = 0
    THEN Invalid("Supabase anon key cannot be empty")
    ELSE IF hasPlaceholder(cfg)
    THEN Invalid("Please replace placeholder values with actual Supabase credentials")
    ELSE Valid

----------------------------------------------------------------------------
(* SupabaseConfig values handed to initialize() *)

Config(url, anonKey, storage, schema, heartbeat, autoRefresh, persist, detect) ==
    [type |-> "object", url |-> url, anonKey |-> anonKey, storage |-> storage,
     schema |-> schema, realtimeHeartbeatIntervalMs |-> heartbeat,
     autoRefreshToken |-> autoRefresh, persistSession |-> persist,
     detectSessionInUrl |-> detect]

Minimal(url, anonKey) == Config(url, anonKey, Undef, Undef, Undef, Undef, Undef, Undef)

\* an untyped caller passing undefined
UndefinedConfig ==
    [type |-> "undefined", url |-> Undef, anonKey |-> Undef, storage |-> Undef,
     schema |-> Undef, realtimeHeartbeatIntervalMs |-> Undef,
     autoRefreshToken |-> Undef, persistSession |-> Undef,
     detectSessionInUrl |-> Undef]

u_good        == <<"h","t","t","p","s",":","/","/","x",".","s","u","p","a","b","a","s","e",".","c","o">>
u_http        == <<"h","t","t","p",":","/","/","a",".","c","o">>
u_notaurl     == <<"n","o","t","-","a","-","u","r","l">>
u_placeholder == <<"h","t","t","p","s",":","/","/","y","o","u","r","-","p","r","o","j","e","c","t",".","s","u","p","a","b","a","s","e",".","c","o">>
u_ftp         == <<"f","t","p",":","/","/","x",".","c","o">>
u_nohost      == <<"h","t","t","p","s",":","/","/">>
a_good        == <<"a","b","c","1","2","3">>
a_other       == <<"k","2">>
a_blank       == <<" "," ">>
a_placeholder == <<"x","y","o","u","r","_","s","u","p","a","b","a","s","e","_","a","n","o","n","_","k","e","y","z">>

CustomStorage == Obj(<<"custom">>)

Configs ==
    { Minimal(Str(u_good), Str(a_good)),
      Config(Str(u_http), Str(a_other), CustomStorage, Str(<<"a","p","p">>),
             Num(5), Bool(FALSE), Bool(FALSE), Bool(TRUE)),
      Minimal(Str(u_notaurl), Str(a_good)),
      Minimal(Str(u_good), Str(<< >>)),
      Minimal(Str(u_good), Str(a_placeholder)),
      Minimal(Str(u_placeholder), Str(a_good)),
      UndefinedConfig }

----------------------------------------------------------------------------
(* createClient of @supabase/supabase-js: builds a new client object, or    *)
(* raises.  What it raises is the caller's environment's choice.           *)

Constructed      == [kind |-> "ok",    isError |-> FALSE, message |-> ""]
ThrowsError(msg) == [kind |-> "throw", isError |-> TRUE,  message |-> msg]
ThrowsNonError   == [kind |-> "throw", isError |-> FALSE, message |-> ""]

Outcomes ==
    { Constructed, ThrowsError("supabaseUrl is required."), ThrowsError(""),
      ThrowsNonError }

DefaultStorage == Obj(<<"AsyncStorage">>)
DefaultSchema == Str(<<"p","u","b","l","i","c">>)
DefaultHeartbeat == 30000

\* the options object of lines 87-100 and the object createClient returns for it
createClient(url, anonKey, options) ==
    [id |-> created + 1, url |-> url, anonKey |-> anonKey, options |-> options]

\* a variant that uses || for the three booleans as well
clientOptions_orElse(cfg) ==
    [auth |-> [storage |-> OrElse(cfg.storage, DefaultStorage),
               autoRefreshToken |-> OrElse(cfg.autoRefreshToken, Bool(TRUE)),
               persistSession |-> OrElse(cfg.persistSession, Bool(TRUE)),
               detectSessionInUrl |-> OrElse(cfg.detectSessionInUrl, Bool(FALSE))],
     db |-> [schema |-> OrElse(cfg.schema, DefaultSchema)],
     realtime |-> [heartbeatIntervalMs |->
                       OrElse(cfg.realtimeHeartbeatIntervalMs, Num(DefaultHeartbeat))]]

clientOptions(cfg) ==
    [auth |-> [storage |-> OrElse(cfg.storage, DefaultStorage),
               autoRefreshToken |-> Nullish(cfg.autoRefreshToken, Bool(TRUE)),
               persistSession |-> Nullish(cfg.persistSession, Bool(TRUE)),
               detectSessionInUrl |-> Nullish(cfg.detectSessionInUrl, Bool(FALSE))],
     db |-> [schema |-> OrElse(cfg.schema, DefaultSchema)],
     realtime |-> [heartbeatIntervalMs |->
                       OrElse(cfg.realtimeHeartbeatIntervalMs, Num(DefaultHeartbeat))]]

----------------------------------------------------------------------------
(* SupabaseError.ts *)

SupabaseError(name, message, code) ==
    [name |-> name, message |-> message, code |-> code]

SupabaseInitializationError(message) ==
    SupabaseError("SupabaseInitializationError", message, "INITIALIZATION_ERROR")

----------------------------------------------------------------------------
(* SupabaseClientSingleton: each method as a function of the holder's      *)
(* fields, giving the fields afterwards and what the caller gets.          *)
(* threw = TRUE: the call raised `error` instead of returning.             *)

Result(c, e, cf, n, ret, threw, error) ==
    [client |-> c, initializationError |-> e, config |-> cf, created |-> n,
     ret |-> ret, threw |-> threw, error |-> error]

NoError == SupabaseError("", "", "")

Return(ret) == Result(client, initializationError, config, created, ret, FALSE, NoError)

\* a variant that stores the configuration only once the client is built
initializeTry_storesOnSuccess(cfg, outcome) ==
    LET validation == validateSupabaseConfig(cfg) IN
    IF validation.threw
    THEN Result(client, initializationError, config, created, null, TRUE,
                SupabaseError("TypeError", validation.error[1], ""))
    ELSE IF ~validation.valid
    THEN Result(client,
                IF TruthyStr(validation.error) THEN validation.error
                ELSE <<"Invalid configuration">>,
                config, created, null, FALSE, NoError)
    ELSE IF outcome.kind = "throw"
    THEN Result(client, initializationError, config, created, null, TRUE,
                SupabaseError(IF outcome.isError THEN "Error" ELSE "",
                              outcome.message, ""))
    ELSE LET c == createClient(cfg.url, cfg.anonKey, clientOptions(cfg))
         IN  Result(<<c>>, initializationError, <<cfg>>, created + 1, <<c>>,
                    FALSE, NoError)

\* lines 68-102, the body of the try block; threw means control reached catch
initializeTry(cfg, outcome) ==
    LET validation == validateSupabaseConfig(cfg) IN
    IF validation.threw
    THEN Result(client, initializationError, config, created, null, TRUE,
                SupabaseError("TypeError", validation.error[1], ""))
    ELSE IF ~validation.valid
    THEN Result(client,
                IF TruthyStr(validation.error) THEN validation.error
                ELSE <<"Invalid configuration">>,
                config, created, null, FALSE, NoError)
    ELSE IF outcome.kind = "throw"
    THEN Result(client, initializationError, <<cfg>>, created, null, TRUE,
                SupabaseError(IF outcome.isError THEN "Error" ELSE "",
                              outcome.message, ""))
    ELSE LET c == createClient(cfg.url, cfg.anonKey, clientOptions(cfg))
         IN  Result(<<c>>, initializationError, <<cfg>>, created + 1, <<c>>,
                    FALSE, NoError)

\* a variant without the catch clause: what the try block raised reaches the caller
initializeCatch_rethrows(r) == r

\* lines 103-109, the catch clause applied to what the try block left
initializeCatch(r) ==
    IF r.threw
    THEN Result(r.client,
                <<IF r.error.name # "" THEN r.error.message
                  ELSE "Failed to initialize Supabase client">>,
                r.config, r.created, null, FALSE, NoError)
    ELSE r

\* a variant without the early return of lines 58-60
initialize_rebuilds(cfg, outcome) ==
    IF TruthyStr(initializationError) THEN Return(null)
    ELSE initializeCatch(initializeTry(cfg, outcome))

\* a variant that validates before it looks at the stored client
initialize_validatesFirst(cfg, outcome) ==
    IF TruthyStr(initializationError) THEN Return(null)
    ELSE IF ~validateSupabaseConfig(cfg).valid \/ client = null
    THEN initializeCatch(initializeTry(cfg, outcome))
    ELSE Return(client)

\* a variant that stores the new configuration before the early return
initialize_adoptsConfig(cfg, outcome) ==
    IF client # null
    THEN Result(client, initializationError, <<cfg>>, created, client, FALSE, NoError)
    ELSE IF TruthyStr(initializationError) THEN Return(null)
    ELSE initializeCatch(initializeTry(cfg, outcome))

\* lines 56-110
initialize(cfg, outcome) ==
    IF client # null THEN Return(client)
    ELSE IF TruthyStr(initializationError) THEN Return(null)
    ELSE initializeCatch(initializeTry(cfg, outcome))

NotInitializedMessage ==
    "Supabase client not initialized. Call initialize() first with configuration."

\* lines 116-124
getClient ==
    IF client = null
    THEN Result(client, initializationError, config, created, null, TRUE,
                SupabaseInitializationError(
                    IF TruthyStr(initializationError) THEN initializationError[1]
                    ELSE NotInitializedMessage))
    ELSE Return(client)

\* a variant that takes a stored configuration for a stored client
isInitialized_byConfig == config # null

\* lines 129-131
isInitialized == client # null

\* lines 136-138
getInitializationError == initializationError

\* a variant that leaves the recorded error in place
reset_keepsError == Result(null, initializationError, null, created, null, FALSE, NoError)

\* lines 173-177
reset == Result(null, null, null, created, null, FALSE, NoError)

----------------------------------------------------------------------------
(* AsyncStorage and clearSessionCache (lines 144-167) *)

s_supabase == <<"s","u","p","a","b","a","s","e">>
s_auth     == <<"a","u","t","h">>
s_session  == <<"s","e","s","s","i","o","n">>
s_sb       == <<"s","b","-">>

k_sbAccessToken     == <<"s","b","-","a","c","c","e","s","s","-","t","o","k","e","n">>
k_userSettings      == <<"u","s","e","r","-","s","e","t","t","i","n","g","s">>
k_supabaseAuthToken == <<"s","u","p","a","b","a","s","e",".","a","u","t","h",".","t","o","k","e","n">>
k_theme             == <<"t","h","e","m","e">>

StoredKeys == {k_sbAccessToken, k_userSettings, k_supabaseAuthToken, k_theme}

\* each key holds a value of its own
FullStore == [k \in StoredKeys |-> Len(k)]

InitialStores ==
    {[k \in K |-> FullStore[k]] :
        K \in {StoredKeys, {k_sbAccessToken, k_theme}, {k_userSettings, k_theme}}}

\* a variant that misses the "sb-" prefix
isSessionKey_noPrefix(key) ==
    \/ Includes(key, s_supabase)
    \/ Includes(key, s_auth)
    \/ Includes(key, s_session)

\* the predicate of keys.filter, lines 152-158
isSessionKey(key) ==
    \/ Includes(key, s_supabase)
    \/ Includes(key, s_auth)
    \/ Includes(key, s_session)
    \/ Includes(key, s_sb)

\* AsyncStorage.getAllKeys
getAllKeys == DOMAIN store

\* a variant that removes one key of the batch
multiRemove_firstOnly(keys) ==
    IF keys = {} THEN store
    ELSE [k \in DOMAIN store \ {CHOOSE key \in keys : TRUE} |-> store[k]]

\* AsyncStorage.multiRemove
multiRemove(keys) == [k \in DOMAIN store \ keys |-> store[k]]

\* a variant without the catch clause: a raised step rejects the promise
clearCatch_rethrows(raised) == IF raised THEN "rejected" ELSE "resolved"

\* lines 164-166: what the promise settles to when the try block raised
clearCatch(raised) == "resolved"

\* a variant without the guard of line 146
hasClient_unguarded == TRUE

\* line 146: if (this.client)
hasClient == client # null

\* a variant that catches a failed sign-out on its own and carries on
afterSignOut_ignoresFailure(ok) == "getAllKeys"

\* lines 148-151 inside the try block: where control goes when the awaited
\* sign-out has settled
afterSignOut(ok) == IF ok THEN "getAllKeys" ELSE "catch"

\* what the caller keeps in its own adapter: the session the client
\* persisted there and an entry of the caller's
AdapterEntries == [k \in {k_sbAccessToken, k_theme} |-> Len(k)]

\* a variant that deletes the session keys through config.storage when the
\* caller gave one
adapterAfterMultiRemove_viaConfig(keys) ==
    IF config # null /\ Truthy(config[1].storage)
    THEN [k \in DOMAIN adapter \ keys |-> adapter[k]]
    ELSE adapter

\* lines 150-162 name AsyncStorage only: the batch delete does not reach the
\* caller's adapter
adapterAfterMultiRemove(keys) == adapter

\* a variant that drops the client when it clears the cache
clearFields_dropsClient ==
    /\ client' = null
    /\ UNCHANGED <<initializationError, config, created>>

\* lines 144-167 assign none of the holder's fields
clearFields == UNCHANGED holder

\* raised: the step of this invocation that has failed, "none" so far
Idle == [pc |-> "idle", sessionKeys |-> {}, prior |-> << >>, raised |-> "none"]

Slots == 1..MaxCalls

Free(p) == calls[p].pc = "idle"

\* the promise of slot p settles: raisedAt names the step whose failure sent
\* control to the catch clause, "none" when the try block ran to its end
Settle(p, ran, raisedAt) ==
    /\ calls' = [calls EXCEPT ![p] = Idle]
    /\ settled' = [ran |-> ran, failedAt |-> raisedAt,
                   deleted |-> (raisedAt = "none" /\ calls[p].pc = "multiRemove"),
                   outcome |-> clearCatch(raisedAt # "none")]

\* the call runs synchronously up to its first await; a new invocation takes
\* the lowest slot that holds no pending one
ClearSessionCache(p) ==
    /\ Free(p)
    /\ \A q \in Slots : Free(q) => p <= q
    /\ IF hasClient
       THEN /\ calls' = [calls EXCEPT ![p] =
                            [pc |-> "signOut", sessionKeys |-> {}, prior |-> store,
                             raised |-> "none"]]
            /\ UNCHANGED settled
       ELSE Settle(p, FALSE, "none")
    /\ clearFields
    /\ UNCHANGED <<last, lifecycle, failed, store, hook, adapter>>

\* await this.client.auth.signOut() settles; then getAllKeys() is issued
SignOutSettles(p) ==
    /\ calls[p].pc = "signOut"
    /\ \E ok \in BOOLEAN :
         IF afterSignOut(ok) = "getAllKeys"
         THEN /\ calls' = [calls EXCEPT ![p].pc = "getAllKeys",
                                        ![p].raised = IF ok THEN "none" ELSE "signOut"]
              /\ UNCHANGED settled
         ELSE Settle(p, TRUE, "signOut")
    /\ clearFields
    /\ UNCHANGED <<last, lifecycle, failed, store, hook, adapter>>

\* await AsyncStorage.getAllKeys() settles; the keys are filtered and, if any
\* is left, multiRemove() is issued
GetAllKeysSettles(p) ==
    /\ calls[p].pc = "getAllKeys"
    /\ \E ok \in BOOLEAN :
         LET sessionKeys == {k \in getAllKeys : isSessionKey(k)} IN
         IF ~ok THEN Settle(p, TRUE, "getAllKeys")
         ELSE IF Cardinality(sessionKeys) > 0
         THEN /\ calls' = [calls EXCEPT ![p].pc = "multiRemove",
                                        ![p].sessionKeys = sessionKeys]
              /\ UNCHANGED settled
         ELSE Settle(p, TRUE, "none")
    /\ clearFields
    /\ UNCHANGED <<last, lifecycle, failed, store, hook, adapter>>

\* await AsyncStorage.multiRemove(sessionKeys) settles; a rejected batch may
\* have removed any part of the keys
MultiRemoveSettles(p) ==
    /\ calls[p].pc = "multiRemove"
    /\ \/ /\ store' = multiRemove(calls[p].sessionKeys)
          /\ Settle(p, TRUE, "none")
       \/ \E part \in SUBSET calls[p].sessionKeys :
            /\ store' = multiRemove(part)
            /\ Settle(p, TRUE, "multiRemove")
    /\ adapter' = adapterAfterMultiRemove(calls[p].sessionKeys)
    /\ clearFields
    /\ UNCHANGED <<last, lifecycle, failed, hook>>

----------------------------------------------------------------------------
(* useSupabase (presentation/hooks/useSupabase.ts, lines 57-88), for one     *)
(* component.  The memo cells live from the render that mounts the        *)
(* component; a render that throws mounts nothing and keeps no cell.       *)

\* the exported wrappers around the holder
isSupabaseInitialized == isInitialized

getSupabaseClient == getClient

Unmounted == [mounted |-> FALSE, isInitialized |-> FALSE, client |-> null]

HookNotInitializedMessage ==
    "Supabase client not initialized. Call initializeSupabase() first."

\* line 58: useMemo(() => isSupabaseInitialized(), []) computes on the first
\* render only
memoIsInitialized ==
    IF hook.mounted THEN hook.isInitialized ELSE isSupabaseInitialized

\* lines 60-67: useMemo(..., [isInitialized]) computes on the first render and
\* whenever isInitialized differs from the one of the previous render
memoClient(isInit) ==
    IF hook.mounted /\ hook.isInitialized = isInit THEN Return(hook.client)
    ELSE IF ~isInit
    THEN Result(client, initializationError, config, created, null, TRUE,
                SupabaseInitializationError(HookNotInitializedMessage))
    ELSE getSupabaseClient

\* one render: the value useSupabase() returns, or what it throws, and the
\* memo cells afterwards
useSupabase ==
    LET isInit == memoIsInitialized
        c == memoClient(isInit)
    IN  [threw |-> c.threw, error |-> c.error,
         ret |-> c.ret, isInitialized |-> isInit,
         hook |-> IF c.threw THEN Unmounted
                  ELSE [mounted |-> TRUE, isInitialized |-> isInit, client |-> c.ret]]

\* a variant without the try/catch around getSupabaseClient()
getClientSafely_noCatch ==
    IF ~hook.isInitialized THEN Return(null) ELSE getSupabaseClient

\* lines 69-81: the function useSupabase() returned, called later; it closes
\* over the memoized isInitialized
getClientSafely ==
    IF ~hook.isInitialized THEN Return(null)
    ELSE LET r == getSupabaseClient IN
         IF r.threw THEN Return(null) ELSE r

----------------------------------------------------------------------------
(* The calls a program makes on the holder *)

Call(op, arg, outcome, r, retBool, retErr) ==
    [op |-> op, arg |-> arg, outcome |-> outcome, ret |-> r.ret,
     threw |-> r.threw, error |-> r.error, retBool |-> retBool,
     retErr |-> retErr, afterReset |-> last.op = "reset",
     onEmpty |-> (client = null /\ initializationError = null /\ config = null)]

Update(r) ==
    /\ client' = r.client
    /\ initializationError' = r.initializationError
    /\ config' = r.config
    /\ created' = r.created

InitHolder ==
    /\ client = null
    /\ initializationError = null
    /\ config = null
    /\ created = 0
    /\ last = [op |-> "none", arg |-> UndefinedConfig, outcome |-> Constructed,
               ret |-> null, threw |-> FALSE, error |-> NoError,
               retBool |-> FALSE, retErr |-> null, afterReset |-> FALSE,
               onEmpty |-> FALSE]
    /\ lifecycle = null
    /\ failed = FALSE
    /\ calls = [p \in Slots |-> Idle]
    /\ settled = [ran |-> FALSE, deleted |-> FALSE, failedAt |-> "none", outcome |-> "none"]
    /\ hook = Unmounted
    /\ adapter = AdapterEntries

Initialize(configs, outcomes) ==
    \E cfg \in configs, outcome \in outcomes :
        LET r == initialize(cfg, outcome) IN
        /\ r.created <= MaxClients
        /\ Update(r)
        /\ last' = Call("initialize", cfg, outcome, r, FALSE, null)
        /\ lifecycle' = IF lifecycle = null /\ ~r.threw /\ r.ret # null
                        THEN <<[config |-> cfg, client |-> r.ret[1]]>>
                        ELSE lifecycle
        /\ failed' = (failed \/ r.threw \/ r.ret = null)
        /\ UNCHANGED <<store, calls, settled, hook, adapter>>

GetClient ==
    LET r == getClient IN
    /\ Update(r)
    /\ last' = Call("getClient", UndefinedConfig, Constructed, r, FALSE, null)
    /\ UNCHANGED <<lifecycle, failed, store, calls, settled, hook, adapter>>

IsInitialized ==
    /\ last' = Call("isInitialized", UndefinedConfig, Constructed, Return(null),
                    isInitialized, null)
    /\ UNCHANGED <<holder, lifecycle, failed, store, calls, settled, hook, adapter>>

GetInitializationError ==
    /\ last' = Call("getInitializationError", UndefinedConfig, Constructed,
                    Return(null), FALSE, getInitializationError)
    /\ UNCHANGED <<holder, lifecycle, failed, store, calls, settled, hook, adapter>>

Reset ==
    LET r == reset IN
    /\ Update(r)
    /\ last' = Call("reset", UndefinedConfig, Constructed, r, FALSE, null)
    /\ lifecycle' = null
    /\ failed' = FALSE
    /\ UNCHANGED <<store, calls, settled, hook, adapter>>

\* a render of the component
UseSupabase ==
    LET r == useSupabase IN
    /\ hook' = r.hook
    /\ last' = Call("useSupabase", UndefinedConfig, Constructed, r, r.isInitialized, null)
    /\ UNCHANGED <<holder, lifecycle, failed, store, calls, settled, adapter>>

\* the mounted component calls the getClientSafely it was given
GetClientSafely ==
    /\ hook.mounted
    /\ last' = Call("getClientSafely", UndefinedConfig, Constructed, getClientSafely,
                    FALSE, null)
    /\ UNCHANGED <<holder, lifecycle, failed, store, calls, settled, hook, adapter>>

\* lines 78-89: the client built by createClient keeps its session through
\* the storage it was handed, the caller's adapter or the default one that
\* forwards getItem / setItem / removeItem to AsyncStorage
authStorage == client[1].options.auth.storage

setItem(items, key) == [k \in DOMAIN items \cup {key} |-> Len(k)]

removeItem(items, key) == [k \in DOMAIN items \ {key} |-> items[k]]

AuthStorageWrite ==
    /\ client # null
    /\ \E items \in {setItem(IF authStorage = CustomStorage THEN adapter ELSE store,
                              k_sbAccessToken),
                      removeItem(IF authStorage = CustomStorage THEN adapter ELSE store,
                                 k_sbAccessToken)} :
         IF authStorage = CustomStorage
         THEN adapter' = items /\ UNCHANGED store
         ELSE store' = items /\ UNCHANGED adapter
    /\ UNCHANGED <<holder, last, lifecycle, failed, calls, settled, hook>>

----------------------------------------------------------------------------
(* Spec: the synchronous calls on the holder, over every configuration and *)
(* every outcome of createClient.                                          *)

Init == InitHolder /\ store = FullStore

Next ==
    \/ Initialize(Configs, Outcomes)
    \/ GetClient
    \/ IsInitialized
    \/ GetInitializationError
    \/ Reset

Spec == Init /\ [][Next]_vars

(* SpecCache: clearSessionCache() invocations, suspended at their awaits,   *)
(* interleaved with initialize() and reset().                              *)

CacheConfigs == {Minimal(Str(u_good), Str(a_good)), Minimal(Str(u_notaurl), Str(a_good))}

InitCache == InitHolder /\ store \in InitialStores

NextCache ==
    \/ Initialize(CacheConfigs, {Constructed})
    \/ Reset
    \/ \E p \in Slots : ClearSessionCache(p)
    \/ \E p \in Slots : SignOutSettles(p)
    \/ \E p \in Slots : GetAllKeysSettles(p)
    \/ \E p \in Slots : MultiRemoveSettles(p)

SpecCache == InitCache /\ [][NextCache]_vars

(* SpecHook: a component that renders with useSupabase() and calls          *)
(* getClientSafely(), interleaved with initialize() and reset().           *)

NextHook ==
    \/ Initialize(Configs, Outcomes)
    \/ Reset
    \/ UseSupabase
    \/ GetClientSafely

SpecHook == Init /\ [][NextHook]_vars

(* SpecStorage: clearSessionCache() on holders initialized with and        *)
(* without a caller-supplied storage adapter, while the client persists    *)
(* and removes its session through the storage it was given.               *)

StorageConfigs ==
    { Minimal(Str(u_good), Str(a_good)),
      Config(Str(u_good), Str(a_good), CustomStorage, Undef, Undef, Undef, Undef, Undef) }

\* one clearSessionCache() at a time: overlapping calls are SpecCache's
StorageSlots == {1}

NextStorage ==
    \/ Initialize(StorageConfigs, {Constructed})
    \/ Reset
    \/ AuthStorageWrite
    \/ \E p \in StorageSlots : ClearSessionCache(p)
    \/ \E p \in StorageSlots : SignOutSettles(p)
    \/ \E p \in StorageSlots : GetAllKeysSettles(p)
    \/ \E p \in StorageSlots : MultiRemoveSettles(p)

SpecStorage == Init /\ [][NextStorage]_vars

(* SpecValidate: initialize() on an empty holder over every pairing of a    *)
(* url value with a key value, so that validateSupabaseConfig meets        *)
(* configurations failing one check, several checks, or none.              *)

ValidationUrls ==
    { Undef, Num(5), Str(<< >>), Str(u_good), Str(u_http), Str(u_notaurl),
      Str(u_ftp), Str(u_nohost), Str(u_placeholder) }

ValidationKeys ==
    { Undef, Num(7), Str(<< >>), Str(a_good), Str(a_blank), Str(a_placeholder) }

ValidationConfigs == {Minimal(url, key) : url \in ValidationUrls, key \in ValidationKeys}

NextValidate ==
    \/ Initialize(ValidationConfigs, {Constructed})
    \/ Reset

SpecValidate == Init /\ [][NextValidate]_vars

(* SpecOptions: initialize() with valid configurations whose optional      *)
(* fields are absent or hold a value of their type, the falsy ones ('', 0, *)
(* false) included.                                                        *)

OptionValues ==
    [storage |-> {CustomStorage},
     schema |-> {Str(<< >>), Str(<<"a","p","p">>)},
     realtimeHeartbeatIntervalMs |-> {Num(0), Num(5)},
     autoRefreshToken |-> {Bool(FALSE), Bool(TRUE)},
     persistSession |-> {Bool(FALSE), Bool(TRUE)},
     detectSessionInUrl |-> {Bool(FALSE), Bool(TRUE)}]

\* every optional field absent, or one of them present with a value of its
\* type, or all of them present with their falsy values
OptionConfigs ==
    {Minimal(Str(u_good), Str(a_good))}
    \cup UNION {{[Minimal(Str(u_good), Str(a_good)) EXCEPT ![f] = v] :
                     v \in OptionValues[f]} : f \in DOMAIN OptionValues}
    \cup {Config(Str(u_good), Str(a_good), CustomStorage, Str(<< >>), Num(0),
                 Bool(FALSE), Bool(FALSE), Bool(FALSE))}

NextOptions ==
    \/ Initialize(OptionConfigs, {Constructed})
    \/ Reset

SpecOptions == Init /\ [][NextOptions]_vars

----------------------------------------------------------------------------
(* Properties *)

IsValid(cfg) == validateSupabaseConfig(cfg).valid

\* C1: once initialize(c1) has succeeded, initialize(c2) with a different
\* valid c2 and no reset() in between returns the same client instance, and
\* the stored configuration is still c1.
C1_IdempotentInitialize ==
    (/\ last.op = "initialize"
     /\ lifecycle # null
     /\ IsValid(last.arg)
     /\ last.arg # lifecycle[1].config)
    => /\ last.ret = <<lifecycle[1].client>>
       /\ config = <<lifecycle[1].config>>

C1_Witness ==
    /\ last.op = "initialize"
    /\ lifecycle # null
    /\ IsValid(last.arg)
    /\ last.arg # lifecycle[1].config
    /\ last.ret # null

\* C2: after an initialize() call that failed, and until reset(), the holder
\* stays Uninitialized and every initialize() call returns empty.
C2_FailClosedRetryLock ==
    failed => /\ client = null
              /\ (last.op = "initialize" => last.ret = null)

\* C3: getClient() on an Uninitialized holder raises an INITIALIZATION_ERROR
\* whose message is the recorded initialization error when one is recorded
\* and the generic message otherwise; on an Initialized holder it returns
\* the stored client.
C3_GetClientContract ==
    last.op = "getClient" =>
        IF client = null
        THEN /\ last.threw
             /\ last.error.code = "INITIALIZATION_ERROR"
             /\ last.error.message =
                    IF initializationError # null THEN initializationError[1]
                    ELSE NotInitializedMessage
        ELSE ~last.threw /\ last.ret = client

\* C4: after reset() the holder is not initialized and has no recorded
\* error, and an initialize() that follows it at once with a valid
\* configuration whose construction does not raise returns a client and
\* makes the holder Initialized.
C4_ResetClearsAll ==
    /\ last.op = "reset" => ~isInitialized /\ getInitializationError = null
    /\ (/\ last.op = "initialize"
        /\ last.afterReset
        /\ IsValid(last.arg)
        /\ last.outcome = Constructed)
       => last.ret # null /\ client = last.ret /\ isInitialized

C4_Witness ==
    /\ last.op = "initialize"
    /\ last.afterReset
    /\ last.ret # null
    /\ created = 2

C5_Stable ==
    lifecycle # null =>
        /\ client = <<lifecycle[1].client>>
        /\ last.op \in {"initialize", "getClient"} =>
               ~last.threw /\ last.ret = client

C5_Step == client # null /\ client' # client => last'.op = "reset" /\ client' = null

\* C5: between a successful initialize() and the next reset() the stored
\* client neither changes nor is cleared, every getClient() and initialize()
\* returns that same instance, and only reset() makes the holder
\* Uninitialized again.
C5_ClientSetOnce == [] C5_Stable /\ [][C5_Step]_vars

C5_Witness ==
    /\ lifecycle # null
    /\ last.op = "getClient"
    /\ last.ret = <<lifecycle[1].client>>
    /\ created = 2

C6_MalformedUrls == {u_notaurl, u_nohost, <<":","/","/","x">>}

C6_Urls == C6_MalformedUrls \cup {u_good, u_http, u_placeholder}

C6_Keys == {a_good, << >>, a_placeholder, PLACEHOLDER_KEY, PLACEHOLDER_URL}

C6_Inputs == {Minimal(Str(u), Str(a)) : u \in C6_Urls, a \in C6_Keys} \cup Configs

C6_Rejectable(cfg) ==
    /\ cfg.type = "object"
    /\ \/ cfg.url.type = "string" /\ cfg.url.str \in C6_MalformedUrls
       \/ cfg.anonKey = Str(<< >>)
       \/ cfg.anonKey.type = "string" /\ Includes(cfg.anonKey.str, PLACEHOLDER_KEY)
       \/ cfg.url.type = "string" /\ Includes(cfg.url.str, PLACEHOLDER_URL)

\* C6: a configuration whose url is malformed, whose key is empty, or whose
\* key or url contains its placeholder is rejected by validateSupabaseConfig
\* with a non-empty error, and initialize() with it on an empty holder
\* returns empty and leaves the holder Uninitialized.
C6_ValidationCompleteness ==
    /\ \A cfg \in C6_Inputs :
          C6_Rejectable(cfg) =>
              LET v == validateSupabaseConfig(cfg)
              IN  ~v.threw /\ ~v.valid /\ TruthyStr(v.error)
    /\ (last.op = "initialize" /\ last.onEmpty /\ C6_Rejectable(last.arg))
       => last.ret = null /\ ~last.threw /\ ~isInitialized

C6_Witness ==
    /\ last.op = "initialize"
    /\ last.onEmpty
    /\ C6_Rejectable(last.arg)
    /\ Includes(last.arg.anonKey.str, PLACEHOLDER_KEY)
    /\ last.ret = null
    /\ ~isInitialized

C7_Substrings == {s_supabase, s_auth, s_session, s_sb}

C7_Kept(before) ==
    LET keep == {k \in DOMAIN before : \A sub \in C7_Substrings : ~Includes(k, sub)}
    IN  [k \in keep |-> before[k]]

C7_Step ==
    \A p \in Slots :
        (calls[p].pc # "idle" /\ calls'[p].pc = "idle" /\ settled'.failedAt = "none")
        => store' = C7_Kept(calls[p].prior)

\* C7: when a clearSessionCache() that started on an Initialized holder
\* completes with no underlying call having failed, the store holds exactly
\* the keys it held when the call started that contain none of "supabase",
\* "auth", "session", "sb-", each with its value unchanged.
C7_SessionKeyFiltering == [][C7_Step]_vars

C7_Witness ==
    /\ settled.ran
    /\ settled.deleted
    /\ settled.failedAt = "none"
    /\ DOMAIN store = {k_userSettings, k_theme}

\* C8: no clearSessionCache() promise is rejected, whatever the holder's
\* state and whichever of sign-out, key enumeration and batch delete raised.
C8_ClearNeverFails == settled.outcome \in {"none", "resolved"}

C8_Witness ==
    /\ settled.ran
    /\ settled.failedAt = "multiRemove"
    /\ settled.outcome = "resolved"

\* C9: initialize(), isInitialized(), getInitializationError() and reset()
\* never raise; an initialize() that returns empty has reported its failure
\* by recording an error string.
C9_OnlyGetClientThrows ==
    /\ last.op \in {"initialize", "isInitialized", "getInitializationError", "reset"}
       => ~last.threw
    /\ (last.op = "initialize" /\ last.ret = null) => initializationError # null

C9_Witness ==
    /\ last.op = "initialize"
    /\ last.onEmpty
    /\ IsValid(last.arg)
    /\ last.outcome.kind = "throw"
    /\ ~last.threw
    /\ last.ret = null
    /\ initializationError # null

\* C10: whenever initialize() returns empty, getInitializationError() called
\* right afterwards returns a non-empty error string.
C10_EmptyReturnHasError ==
    (last.op = "initialize" /\ last.ret = null)
    => getInitializationError # null /\ getInitializationError[1] # ""

\* C11: in every reachable state isInitialized() is true exactly when a
\* client is stored, and that is exactly when getClient() returns (the
\* stored client) instead of throwing.
C11_InitializedIffClient ==
    /\ isInitialized <=> client # null
    /\ isInitialized <=> ~getClient.threw
    /\ ~getClient.threw => getClient.ret = client
    /\ last.op = "isInitialized" => (last.retBool <=> client # null)
    /\ last.op = "getClient" => (last.threw <=> client = null)

\* isInitialized() has answered false on a holder whose last initialize()
\* stored a configuration and then failed to construct
C11_Witness ==
    /\ last.op = "isInitialized"
    /\ ~last.retBool
    /\ config # null
    /\ getClient.threw

\* C12: a render with useSupabase() while the holder is Uninitialized does
\* not throw and returns isInitialized = false.
C12_HookOnUninitialized ==
    (last.op = "useSupabase" /\ client = null)
    => (~last.threw /\ ~last.retBool)

\* C13: the getClientSafely() that useSupabase() returned never throws,
\* whatever initialize() and reset() calls were made since the render: it
\* returns null when the holder is Uninitialized at the time of the call and
\* the holder's currently stored client otherwise.
C13_GetClientSafely ==
    /\ hook.mounted => (~getClientSafely.threw /\ getClientSafely.ret = client)
    /\ last.op = "getClientSafely" => (~last.threw /\ last.ret = client)

\* getClientSafely() has returned a client that was built after the render
\* that produced it
C13_Witness ==
    /\ last.op = "getClientSafely"
    /\ last.ret # null
    /\ last.ret # hook.client

\* C14: in every reachable state a stored client and a recorded
\* initialization error do not coexist.
C14_ClientXorError == ~(client # null /\ initializationError # null)

\* C15: initialize() on an Initialized holder, with any configuration, valid
\* or not, returns the stored client and leaves client, configuration and
\* error as they were.
C15_Step ==
    (client # null /\ last'.op = "initialize")
    => /\ last'.ret = client
       /\ ~last'.threw
       /\ client' = client
       /\ config' = config
       /\ initializationError' = initializationError

C15_InitializedNoOp == [][C15_Step]_vars

\* initialize() with a configuration that fails validation has returned the
\* stored client, and no error is recorded
C15_Witness ==
    /\ last.op = "initialize"
    /\ ~IsValid(last.arg)
    /\ client # null
    /\ last.ret = client
    /\ initializationError = null

\* C16 as stated: a failed initialize() on an empty holder changes only the
\* recorded error: the client and the stored configuration are still empty.
C16_FailureChangesOnlyError ==
    (last.op = "initialize" /\ last.onEmpty /\ last.ret = null)
    => (client = null /\ config = null)

\* C16: a failed initialize() on an empty holder leaves the client empty and
\* records an error; the stored configuration is still empty after a
\* validation failure and is the configuration passed after a construction
\* exception.
C16_FailureKeepsClientEmpty ==
    (last.op = "initialize" /\ last.onEmpty /\ last.ret = null)
    => /\ ~last.threw
       /\ client = null
       /\ initializationError # null
       /\ config = IF IsValid(last.arg) THEN <<last.arg>> ELSE null

\* createClient has thrown on an empty holder: initialize() returned null
\* and the configuration is stored
C16_Witness ==
    /\ last.op = "initialize"
    /\ last.onEmpty
    /\ last.ret = null
    /\ last.outcome.kind = "throw"
    /\ config = <<last.arg>>

\* C17: a clearSessionCache() that started on an Initialized holder takes its
\* steps in the order sign-out, key enumeration, batch delete, and a failed
\* step skips the later ones: a call whose sign-out failed enumerates and
\* deletes nothing, a call whose enumeration failed deletes nothing, and the
\* step that fails leaves the store as it is.
C17_Order ==
    {<<"idle", "signOut">>, <<"signOut", "getAllKeys">>, <<"signOut", "idle">>,
     <<"getAllKeys", "multiRemove">>, <<"getAllKeys", "idle">>,
     <<"multiRemove", "idle">>}

C17_Step ==
    /\ \A p \in Slots :
         calls'[p].pc # calls[p].pc => <<calls[p].pc, calls'[p].pc>> \in C17_Order
    /\ \A p \in Slots :
         calls'[p].pc \in {"getAllKeys", "multiRemove"} => calls'[p].raised = "none"
    /\ store' # store
       => \E p \in Slots : calls[p].pc = "multiRemove" /\ calls'[p].pc = "idle"
    /\ \A p \in Slots :
         (/\ calls[p].pc # "idle"
          /\ calls'[p].pc = "idle"
          /\ settled'.failedAt \in {"signOut", "getAllKeys"})
         => /\ calls[p].pc = settled'.failedAt
            /\ calls[p].sessionKeys = {}
            /\ store' = store

C17_FailureSkipsLaterSteps == [][C17_Step]_vars

\* a call has settled on a failed sign-out with nothing else pending, and
\* the session keys it started with are all still stored
C17_Witness ==
    /\ settled.ran
    /\ settled.failedAt = "signOut"
    /\ \A p \in Slots : Free(p)
    /\ store = FullStore

\* C18: clearSessionCache() on an Uninitialized holder (never initialized,
\* failed or reset) issues no sign-out and touches no store: no call
\* becomes pending, the promise resolves at once and the store, session keys
\* included, is as it was.
C18_Step ==
    /\ client = null => \A p \in Slots : Free(p) => Free(p)'
    /\ (~settled'.ran /\ settled' # settled)
       => /\ client = null
          /\ calls' = calls
          /\ store' = store
          /\ ~settled'.deleted
          /\ settled'.outcome = "resolved"

C18_UninitializedClearIsNoOp == [][C18_Step]_vars

\* a clearSessionCache() has resolved on a holder that recorded a failed
\* initialize(), nothing is pending and the store still holds session keys
C18_Witness ==
    /\ ~settled.ran
    /\ settled.outcome = "resolved"
    /\ client = null
    /\ initializationError # null
    /\ \A p \in Slots : Free(p)
    /\ \E k \in DOMAIN store : isSessionKey(k)

\* C19: overlapping clearSessionCache() calls on an Initialized holder are
\* idempotent.  Every pending call has a next step to take; when one call
\* completes with no failure while another is pending, the store is what
\* the other call alone would have left from the store it started with; and
\* a call that completes on a store already cleared of session keys
\* leaves it as it is.
C19_Pending == {p \in Slots : ~Free(p)}

C19_CanComplete ==
    \A p \in C19_Pending :
        ENABLED (SignOutSettles(p) \/ GetAllKeysSettles(p) \/ MultiRemoveSettles(p))

C19_Step ==
    \A p \in C19_Pending :
        (Free(p)' /\ settled'.failedAt = "none")
        => /\ \A q \in C19_Pending \ {p} : store' = C7_Kept(calls[q].prior)
           /\ (\A k \in DOMAIN store : ~isSessionKey(k)) => store' = store

C19_OverlappingClearsIdempotent == [] C19_CanComplete /\ [][C19_Step]_vars

\* one call has completed its batch delete while another still holds the
\* same keys to delete
C19_Witness ==
    /\ settled.deleted
    /\ settled.failedAt = "none"
    /\ \A k \in DOMAIN store : ~isSessionKey(k)
    /\ \E q \in Slots :
         /\ calls[q].pc = "multiRemove"
         /\ calls[q].sessionKeys # {}
         /\ calls[q].prior # store

\* C20: clearSessionCache() writes none of the holder's fields.  Whatever
\* initialize() and reset() calls are made while a clear is pending, a step
\* of the clear leaves client, error and configuration as they are, the
\* fields change only in an initialize() or reset() call, and the pending
\* clear can still take its next step and resolves when it settles.
C20_Fields == <<client, initializationError, config>>

C20_StillRuns ==
    \A p \in Slots :
        (~Free(p) /\ client = null)
        => ENABLED (SignOutSettles(p) \/ GetAllKeysSettles(p) \/ MultiRemoveSettles(p))

C20_Step ==
    /\ (calls' # calls \/ settled' # settled \/ store' # store)
       => C20_Fields' = C20_Fields
    /\ C20_Fields' # C20_Fields => last'.op \in {"initialize", "reset"}
    /\ \A p \in Slots : (~Free(p) /\ Free(p)') => settled'.outcome = "resolved"

C20_ClearLeavesHolderAlone == [] C20_StillRuns /\ [][C20_Step]_vars

\* the holder was reset while a clear was waiting on its batch delete
C20_Witness ==
    /\ client = null
    /\ last.op = "reset"
    /\ \E p \in Slots : calls[p].pc = "multiRemove"

\* C21: clearSessionCache() does not touch the caller's storage adapter.
\* No step of a clear changes what the adapter holds, also when the holder
\* was initialized with that adapter, and the keys a clear enumerates and
\* deletes are keys of the default store (AsyncStorage), found there and
\* removed from there only.
C21_Step ==
    /\ (calls' # calls \/ settled' # settled) => adapter' = adapter
    /\ \A p \in Slots :
         (calls[p].pc = "getAllKeys" /\ calls'[p].pc = "multiRemove")
         => calls'[p].sessionKeys = {k \in DOMAIN store : isSessionKey(k)}
    /\ \A p \in Slots :
         (calls[p].pc = "multiRemove" /\ Free(p)')
         => /\ DOMAIN store' \subseteq DOMAIN store
            /\ DOMAIN store \ DOMAIN store' \subseteq calls[p].sessionKeys

C21_AdapterUntouched == [][C21_Step]_vars

\* the only client ever built uses the caller's adapter; a clear has
\* deleted the session keys of the default store and the adapter still
\* holds its session entry
C21_Witness ==
    /\ created = 1
    /\ client # null
    /\ authStorage = CustomStorage
    /\ settled.deleted
    /\ \A k \in DOMAIN store : ~isSessionKey(k)
    /\ adapter = AdapterEntries

\* C22: validateSupabaseConfig applies its five checks in order and stops at
\* the first that fails: the result is valid with no error exactly when all
\* five pass, and otherwise invalid with the message of the earliest failing
\* check; an initialize() on an empty holder records that message, and
\* builds a client exactly when all five pass.
C22_Checks(cfg) ==
    << [pass  |-> Truthy(cfg.url) /\ cfg.url.type = "string",
        error |-> "Supabase URL is required and must be a string"],
       [pass  |-> Truthy(cfg.anonKey) /\ cfg.anonKey.type = "string",
        error |-> "Supabase anon key is required and must be a string"],
       [pass  |-> /\ ParseURL(cfg.url.str).ok
                  /\ ParseURL(cfg.url.str).protocol \in {http \o <<":">>, https \o <<":">>},
        error |-> IF ParseURL(cfg.url.str).ok
                  THEN "Supabase URL must use http:// or https:// protocol"
                  ELSE "Invalid Supabase URL format"],
       [pass  |-> Trim(cfg.anonKey.str) # << >>,
        error |-> "Supabase anon key cannot be empty"],
       [pass  |-> /\ ~Includes(cfg.anonKey.str, PLACEHOLDER_KEY)
                  /\ ~Includes(cfg.url.str, PLACEHOLDER_URL),
        error |-> "Please replace placeholder values with actual Supabase credentials"] >>

C22_Failing(cfg) == {i \in 1..5 : ~C22_Checks(cfg)[i].pass}

C22_Earliest(cfg) == CHOOSE i \in C22_Failing(cfg) : \A j \in C22_Failing(cfg) : i <= j

C22_ValidationOrder ==
    /\ \A cfg \in ValidationConfigs :
         LET result == validateSupabaseConfig(cfg) IN
         /\ ~result.threw
         /\ result.valid <=> C22_Failing(cfg) = {}
         /\ result.valid => result.error = null
         /\ ~result.valid => result.error = <<C22_Checks(cfg)[C22_Earliest(cfg)].error>>
    /\ (last.op = "initialize" /\ last.onEmpty)
       => /\ client # null <=> C22_Failing(last.arg) = {}
          /\ client = null
             => initializationError =
                    <<C22_Checks(last.arg)[C22_Earliest(last.arg)].error>>

\* a malformed url together with a placeholder key: the url-format error is
\* the one recorded
C22_Witness ==
    /\ last.op = "initialize"
    /\ last.onEmpty
    /\ {3, 5} \subseteq C22_Failing(last.arg)
    /\ initializationError = <<"Invalid Supabase URL format">>

\* C23 as stated: a successful initialize(config) builds the client with the
\* caller's storage adapter when one is given and the default adapter
\* otherwise, and with each of autoRefreshToken, persistSession,
\* detectSessionInUrl, schema and heartbeat interval equal to the caller's
\* value whenever the field is present, whatever the value, and to the
\* default true / true / false / "public" / 30000 only when it is absent.
C23_Supplied(field, default) == IF field.type = "undefined" THEN default ELSE field

C23_Expected(cfg) ==
    [auth |-> [storage |-> C23_Supplied(cfg.storage, DefaultStorage),
               autoRefreshToken |-> C23_Supplied(cfg.autoRefreshToken, Bool(TRUE)),
               persistSession |-> C23_Supplied(cfg.persistSession, Bool(TRUE)),
               detectSessionInUrl |-> C23_Supplied(cfg.detectSessionInUrl, Bool(FALSE))],
     db |-> [schema |-> C23_Supplied(cfg.schema, DefaultSchema)],
     realtime |-> [heartbeatIntervalMs |->
                       C23_Supplied(cfg.realtimeHeartbeatIntervalMs,
                                    Num(DefaultHeartbeat))]]

C23_DerivedOptions ==
    (last.op = "initialize" /\ last.onEmpty /\ client # null)
    => client[1].options = C23_Expected(last.arg)

\* C23: the three booleans equal the caller's value whenever the
\* field is present, false included; schema and heartbeat interval equal
\* the caller's value when it is truthy and fall back to "public" / 30000
\* when the field is absent, '' or 0; the storage is the caller's adapter
\* when given and the default adapter otherwise.
C23_SuppliedTruthy(field, falsy, default) ==
    IF field \in {Undef, falsy} THEN default ELSE field

C23_Built(cfg) ==
    [auth |-> [storage |-> C23_Supplied(cfg.storage, DefaultStorage),
               autoRefreshToken |-> C23_Supplied(cfg.autoRefreshToken, Bool(TRUE)),
               persistSession |-> C23_Supplied(cfg.persistSession, Bool(TRUE)),
               detectSessionInUrl |-> C23_Supplied(cfg.detectSessionInUrl, Bool(FALSE))],
     db |-> [schema |-> C23_SuppliedTruthy(cfg.schema, Str(<< >>), DefaultSchema)],
     realtime |-> [heartbeatIntervalMs |->
                       C23_SuppliedTruthy(cfg.realtimeHeartbeatIntervalMs, Num(0),
                                          Num(DefaultHeartbeat))]]

C23_FalsyFallsBack ==
    (last.op = "initialize" /\ last.onEmpty /\ client # null)
    => /\ client[1].options = C23_Built(last.arg)
       /\ client[1].url = last.arg.url
       /\ client[1].anonKey = last.arg.anonKey

\* a client built from a configuration whose optional fields all hold their
\* falsy values: the booleans are kept, schema and interval are the defaults
C23_Witness ==
    /\ last.op = "initialize"
    /\ last.onEmpty
    /\ client # null
    /\ last.arg.schema = Str(<< >>)
    /\ last.arg.realtimeHeartbeatIntervalMs = Num(0)
    /\ last.arg.persistSession = Bool(FALSE)
    /\ client[1].options.db.schema = DefaultSchema
    /\ client[1].options.realtime.heartbeatIntervalMs = Num(DefaultHeartbeat)
    /\ client[1].options.auth.persistSession = Bool(FALSE)

\* C24: on every render of a mounted component the isInitialized that
\* useSupabase() returns equals the holder's current isInitialized(), also
\* after initialize() or reset() was called since the first render.
C24_HookTracksHolder ==
    (last.op = "useSupabase" /\ ~last.threw /\ hook.mounted)
    => (last.retBool <=> isInitialized)

====
